---------------------------- MODULE Spec2Model ----------------------------
(***************************************************************************)
(* A model of keepassxc-recover: the credential enumerator                 *)
(* (recover/credentials.py), the progress store (recover/progress.py),     *)
(* the attempt driver (recover/recovery.py) and the command line entry     *)
(* point (recover/cli.py).                                                 *)
(*                                                                         *)
(* Python's Optional[T] is modelled as a sequence of length at most one:   *)
(* None is << >> and a present value v is << v >>.  A pathlib.Path is the  *)
(* sequence of its parts and str(path) joins the parts with "/".           *)
(***************************************************************************)
EXTENDS Integers, Sequences, FiniteSets, TLC

None == << >>

Some(v) == << v >>

(***************************************************************************)
(* Helpers on sequences.                                                   *)
(***************************************************************************)
Range(s) == { s[i] : i \in 1..Len(s) }

Contains(s, e) == \E i \in 1..Len(s) : s[i] = e

RECURSIVE Flatten(_)
Flatten(ss) == IF ss = << >> THEN << >> ELSE Head(ss) \o Flatten(Tail(ss))

RECURSIVE JoinParts(_)
JoinParts(parts) ==
    IF Len(parts) = 0 THEN "."
    ELSE IF Len(parts) = 1 THEN parts[1]
    ELSE parts[1] \o "/" \o JoinParts(Tail(parts))

\* str(path) of a pathlib.Path
PathStr(path) == JoinParts(path)

(***************************************************************************)
(* recover/credentials.py                                                  *)
(***************************************************************************)
Credential(passphrase, keyfile, yubikey_slot) ==
    [passphrase |-> passphrase, keyfile |-> keyfile, yubikey_slot |-> yubikey_slot]

\* Credential.to_dict: the keyfile path becomes its string, None stays None
to_dict(credential) ==
    [passphrase   |-> credential.passphrase,
     keyfile      |-> IF credential.keyfile # None
                      THEN Some(PathStr(credential.keyfile[1])) ELSE None,
     yubikey_slot |-> credential.yubikey_slot]

\* CredentialManager.__init__
NewCredentialManager ==
    [passphrases |-> << >>, keyfiles |-> << >>, yubikey_slots |-> << >>,
     include_no_passphrase |-> FALSE,
     include_no_keyfile    |-> FALSE,
     include_no_yubikey    |-> TRUE]

add_passphrases(cm, passphrases) ==
    [cm EXCEPT !.passphrases = @ \o passphrases]

add_keyfiles(cm, keyfiles) == [cm EXCEPT !.keyfiles = @ \o keyfiles]

set_yubikey_slots(cm, slots) == [cm EXCEPT !.yubikey_slots = slots]

enable_no_passphrase(cm, enabled) == [cm EXCEPT !.include_no_passphrase = enabled]

enable_no_keyfile(cm, enabled) == [cm EXCEPT !.include_no_keyfile = enabled]

Options(values) == [i \in 1..Len(values) |-> Some(values[i])]

passphrase_options(cm) ==
    Options(cm.passphrases)
      \o (IF cm.include_no_passphrase THEN << None >> ELSE << >>)
      \o (IF cm.passphrases = << >> /\ (cm.keyfiles # << >> \/ cm.yubikey_slots # << >>)
          THEN << None >> ELSE << >>)

keyfile_options(cm) ==
    Options(cm.keyfiles)
      \o (IF cm.include_no_keyfile \/ cm.keyfiles = << >> THEN << None >> ELSE << >>)

yubikey_options(cm) ==
    Options(cm.yubikey_slots)
      \o (IF cm.include_no_yubikey THEN << None >> ELSE << >>)

\* the product as it would be with the keyfile varying slowest
product_keyfile_major(P, K, Y) ==
    Flatten([j \in 1..Len(K) |->
       Flatten([i \in 1..Len(P) |->
          [k \in 1..Len(Y) |-> Credential(P[i], K[j], Y[k])]])])

\* itertools.product(P, K, Y): the rightmost factor varies fastest
product(P, K, Y) ==
    Flatten([i \in 1..Len(P) |->
       Flatten([j \in 1..Len(K) |->
          [k \in 1..Len(Y) |-> Credential(P[i], K[j], Y[k])]])])

\* the filter of lines 127-128 as it would be if it let every triple pass
AllAbsent_unchecked(credential) == FALSE

AllAbsent(credential) ==
    /\ credential.passphrase = None
    /\ credential.keyfile = None
    /\ credential.yubikey_slot = None

\* the generator as it would be if it yielded the product as it is
generate_combinations_unfiltered(cm) ==
    product(passphrase_options(cm), keyfile_options(cm), yubikey_options(cm))

\* the whole sequence the generator yields
generate_combinations(cm) ==
    SelectSeq(product(passphrase_options(cm), keyfile_options(cm), yubikey_options(cm)),
              LAMBDA c : ~AllAbsent(c))

count_combinations(cm) == Len(generate_combinations(cm))

(***************************************************************************)
(* recover/progress.py                                                     *)
(*                                                                         *)
(* A file on disk is [kind, data]: kind "absent", "record" (a JSON object  *)
(* holding a complete ProgressData, in data), "invalid_json" (text that is *)
(* not JSON, as a write cut short leaves it), "wrong_shape" (JSON that is  *)
(* not a complete record) or "undecodable" (bytes that are not text).      *)
(* The backup file is never read, so only its existence is kept: "absent"  *)
(* or "present".  The store state st gathers _progress, the three files    *)
(* and the clock datetime.now() reads.                                     *)
(***************************************************************************)
BatchInterval == 10

Absent == [kind |-> "absent", data |-> None]

Garbage(kind) == [kind |-> kind, data |-> None]

JsonFile(obj) == [kind |-> "record", data |-> Some(obj)]

Present == [kind |-> "present", data |-> None]

\* a success summary left by an earlier process: it is never read, so only
\* its presence is kept
Stale == [kind |-> "stale", data |-> None]

Exists(file) == file.kind # "absent"

\* hashlib.sha256 of the file's bytes, hex encoded
calculate_database_hash(bytes) == "sha256:" \o bytes

\* the outcomes of one flush: the rename to the backup and the write
NoFault == [rename_ok |-> TRUE, write |-> "ok", unlink_ok |-> TRUE,
            backup_unlink_ok |-> TRUE]

IOOutcomes ==
    [rename_ok : BOOLEAN, write : {"ok", "open_fails", "dump_fails"},
     unlink_ok : BOOLEAN, backup_unlink_ok : BOOLEAN]

\* the outcomes a flush reads, and those cleanup_progress reads
SaveIO == { io \in IOOutcomes : io.unlink_ok /\ io.backup_unlink_ok }

CleanupIO == { io \in IOOutcomes : io.rename_ok }

FaultCount(io) ==
    (IF io.rename_ok THEN 0 ELSE 1) + (IF io.write = "ok" THEN 0 ELSE 1)
      + (IF io.unlink_ok THEN 0 ELSE 1) + (IF io.backup_unlink_ok THEN 0 ELSE 1)

\* open(path, 'w') and json.dump(obj): open may fail, or the dump may fail
\* after the file was truncated
WriteJson(file, obj, outcome) ==
    CASE outcome = "ok"         -> JsonFile(obj)
      [] outcome = "open_fails" -> file
      [] outcome = "dump_fails" -> Garbage("invalid_json")

\* _save_progress as it would be if a failed write dropped the record held in
\* memory
save_progress_discarding(st, io) ==
    IF st.progress = None THEN st
    ELSE LET renamed == Exists(st.progress_file) /\ io.rename_ok
             s1 == IF renamed
                   THEN [st EXCEPT !.backup_file = Present,
                                   !.progress_file = Absent]
                   ELSE st
             s2 == [s1 EXCEPT !.progress_file = WriteJson(@, st.progress[1], io.write)]
         IN  IF io.write = "ok" THEN s2 ELSE [s2 EXCEPT !.progress = None]

save_progress(st, io) ==
    IF st.progress = None THEN st
    ELSE LET renamed == Exists(st.progress_file) /\ io.rename_ok
             s1 == IF renamed
                   THEN [st EXCEPT !.backup_file = Present,
                                   !.progress_file = Absent]
                   ELSE st
         IN  [s1 EXCEPT !.progress_file = WriteJson(@, st.progress[1], io.write)]

\* load_progress as it would be without the comparisons of lines 71-82: every
\* complete record is accepted, whatever target it was written for
load_progress_any_target(st, database, bytes) ==
    CASE st.progress_file.kind = "absent" -> << st, "False" >>
      [] st.progress_file.kind = "undecodable" -> << st, "raise" >>
      [] st.progress_file.kind \in {"invalid_json", "wrong_shape"} ->
            << [st EXCEPT !.progress = None], "False" >>
      [] st.progress_file.kind = "record" ->
            << [st EXCEPT !.progress = Some(st.progress_file.data[1])], "True" >>

\* the result is <<store state, "True" | "False" | "raise">>
load_progress(st, database, bytes) ==
    CASE st.progress_file.kind = "absent" -> << st, "False" >>
      [] st.progress_file.kind = "undecodable" -> << st, "raise" >>
      [] st.progress_file.kind \in {"invalid_json", "wrong_shape"} ->
            << [st EXCEPT !.progress = None], "False" >>
      [] st.progress_file.kind = "record" ->
            LET loaded == st.progress_file.data[1]
                current_hash == calculate_database_hash(bytes)
            IN  IF loaded.database_hash # current_hash
                THEN << [st EXCEPT !.progress = None], "False" >>
                ELSE IF loaded.database_file # PathStr(database)
                THEN << [st EXCEPT !.progress = None], "False" >>
                ELSE << [st EXCEPT !.progress = Some(loaded)], "True" >>

create_new_progress(st, database, bytes, total_combinations, io) ==
    LET now == st.clock
        fresh == [database_file      |-> PathStr(database),
                  database_hash      |-> calculate_database_hash(bytes),
                  started_at         |-> now,
                  last_updated       |-> now,
                  total_combinations |-> total_combinations,
                  attempts_made      |-> 0,
                  tried_combinations |-> << >>,
                  current_index      |-> 0,
                  success            |-> None]
    IN  save_progress([st EXCEPT !.progress = Some(fresh), !.clock = @ + 1], io)

\* is_combination_tried as it would be if it never found anything
is_combination_tried_blind(st, credential) == FALSE

is_combination_tried(st, credential) ==
    IF st.progress = None THEN FALSE
    ELSE Contains(st.progress[1].tried_combinations, to_dict(credential))

\* mark_combination_tried as it would be without the batch flush of lines
\* 128-130
mark_combination_tried_unflushed(st, credential, io) ==
    IF st.progress = None THEN st
    ELSE
      LET p == st.progress[1]
          credential_dict == to_dict(credential)
      IN  IF Contains(p.tried_combinations, credential_dict) THEN st
          ELSE [st EXCEPT !.progress =
                              Some([p EXCEPT !.tried_combinations = Append(@, credential_dict),
                                             !.attempts_made = @ + 1,
                                             !.current_index = @ + 1,
                                             !.last_updated = st.clock]),
                          !.clock = @ + 1]

\* mark_combination_tried as it would be without the membership test of
\* line 123: every call appends and counts
mark_combination_tried_unguarded(st, credential, io) ==
    IF st.progress = None THEN st
    ELSE
      LET p == st.progress[1]
          q == [p EXCEPT !.tried_combinations = Append(@, to_dict(credential)),
                         !.attempts_made = @ + 1,
                         !.current_index = @ + 1,
                         !.last_updated = st.clock]
          s1 == [st EXCEPT !.progress = Some(q), !.clock = @ + 1]
      IN  IF q.attempts_made % BatchInterval = 0
          THEN save_progress(s1, io) ELSE s1

mark_combination_tried(st, credential, io) ==
    IF st.progress = None THEN st
    ELSE
      LET p == st.progress[1]
          credential_dict == to_dict(credential)
      IN  IF Contains(p.tried_combinations, credential_dict) THEN st
          ELSE LET q == [p EXCEPT !.tried_combinations = Append(@, credential_dict),
                                  !.attempts_made = @ + 1,
                                  !.current_index = @ + 1,
                                  !.last_updated = st.clock]
                   s1 == [st EXCEPT !.progress = Some(q), !.clock = @ + 1]
               IN  IF q.attempts_made % BatchInterval = 0
                   THEN save_progress(s1, io) ELSE s1

\* mark_success as it would be if its flush waited for the batch boundary
mark_success_batched(st, credential, io) ==
    IF st.progress = None THEN st
    ELSE LET q == [st.progress[1] EXCEPT !.success = Some(to_dict(credential)),
                                         !.last_updated = st.clock]
             s1 == [st EXCEPT !.progress = Some(q), !.clock = @ + 1]
         IN  IF q.attempts_made % BatchInterval = 0 THEN save_progress(s1, io) ELSE s1

mark_success(st, credential, io) ==
    IF st.progress = None THEN st
    ELSE LET q == [st.progress[1] EXCEPT !.success = Some(to_dict(credential)),
                                         !.last_updated = st.clock]
         IN  save_progress([st EXCEPT !.progress = Some(q), !.clock = @ + 1], io)

\* get_skip_count as it would be if it counted one position too many
get_skip_count_overcounting(st) ==
    IF st.progress = None THEN 0 ELSE st.progress[1].attempts_made + 1

get_skip_count(st) ==
    IF st.progress = None THEN 0 ELSE st.progress[1].attempts_made

SuccessSummary(p, now) ==
    [database_file      |-> p.database_file,
     database_hash      |-> p.database_hash,
     success_credential |-> p.success[1],
     completed_at       |-> now,
     total_attempts     |-> p.attempts_made]

\* every step sits in one try block: the first failure skips the rest
cleanup_progress(st, io) ==
    IF ~Exists(st.progress_file) THEN st
    ELSE
      LET summarise == st.progress # None /\ st.progress[1].success # None
          s1 == IF summarise
                THEN [st EXCEPT !.success_file =
                          WriteJson(@, SuccessSummary(st.progress[1], st.clock), io.write),
                        !.clock = IF io.write = "open_fails" THEN @ ELSE @ + 1]
                ELSE st
          s2 == [s1 EXCEPT !.progress_file = Absent]
          s3 == IF Exists(s2.backup_file) /\ io.backup_unlink_ok
                THEN [s2 EXCEPT !.backup_file = Absent] ELSE s2
      IN  IF summarise /\ io.write # "ok" THEN s1
          ELSE IF ~io.unlink_ok THEN s1
          ELSE s3

(***************************************************************************)
(* recover/cli.py and recover/recovery.py: one process per run.            *)
(***************************************************************************)
\* processes started one after the other on the same progress file
MaxRuns == 2

\* I/O operations that may fail in one behaviour
MaxFaults == 1

\* a restart happens later than every timestamp of the runs before it
Epoch == 100

\* the command lines the model runs: literal passphrases and keyfiles, the
\* YubiKey toggle with its slot list, and the two try-no-... toggles
Keyfile1 == << "keys", "a.key" >>

CommandLines ==
    { [passphrases_list |-> << "alpha", "beta" >>, keyfile_list |-> << Keyfile1 >>,
       yubikey |-> TRUE, yubikey_slots |-> << 1 >>,
       try_no_password |-> TRUE, try_no_keyfile |-> TRUE],
      [passphrases_list |-> << >>, keyfile_list |-> << >>,
       yubikey |-> FALSE, yubikey_slots |-> << 1, 2 >>,
       try_no_password |-> TRUE, try_no_keyfile |-> TRUE] }

DatabasePaths == { << "vault.kdbx" >>, << "copy", "vault.kdbx" >> }

DatabaseContents == { "bytesA", "bytesB" }

\* what may lie at the progress file's path before the first run
InitialFiles ==
    { Absent, Garbage("invalid_json"), Garbage("wrong_shape"), Garbage("undecodable") }

VerifierOutcomes == { "exit0", "nonzero", "timeout", "error" }

VARIABLES
    progress,          \* ProgressManager._progress (Optional)
    progress_file,     \* the working progress file
    backup_file,       \* its .json.backup sibling
    success_file,      \* its .success.json sibling
    clock,             \* the next value datetime.now() returns
    database,          \* the target path given on the command line
    database_bytes,    \* the target file's content
    args,              \* the other command line arguments
    resume,            \* --resume / --no-resume
    credential_manager,\* the CredentialManager main built (Optional)
    interrupted,       \* RecoveryEngine._interrupted
    pc,                \* where the process is
    progress_loaded,   \* run's local: "unset", "True", "False" or "raise"
    consumed,          \* items taken from generate_combinations()
    credential,        \* run's loop variable (Optional)
    combination_index, \* run's local
    skip_count,        \* run's local
    verifier,          \* the outcome of the verifier invocation that just returned
    outcome,           \* how run() ended: "", Succeeded, Exhausted, Interrupted, Failed
    exit_code,         \* the process exit code (Optional)
    run,               \* number of the current process
    faults,            \* I/O faults so far
    trace,             \* history: what this run did, in order
    prev_completed     \* history: credentials whose invocation completed in the
                       \* earlier runs this run resumes

store_vars == << progress, progress_file, backup_file, success_file, clock >>

target_vars == << database, database_bytes, args, resume >>

loop_vars == << consumed, credential, combination_index, skip_count, verifier >>

vars == << progress, progress_file, backup_file, success_file, clock,
           database, database_bytes, args, resume, credential_manager,
           interrupted, pc, progress_loaded, consumed, credential,
           combination_index, skip_count, verifier, outcome, exit_code, run,
           faults, trace, prev_completed >>

Store ==
    [progress |-> progress, progress_file |-> progress_file,
     backup_file |-> backup_file, success_file |-> success_file, clock |-> clock]

SetStore(st) ==
    /\ progress' = st.progress
    /\ progress_file' = st.progress_file
    /\ backup_file' = st.backup_file
    /\ success_file' = st.success_file
    /\ clock' = st.clock

\* an I/O outcome the environment may produce now: within the fault budget,
\* and a fault only where it changes what the operation leaves behind
Inject(io, after, unfaulted) ==
    /\ faults + FaultCount(io) <= MaxFaults
    /\ io # NoFault => after # unfaulted
    /\ faults' = faults + FaultCount(io)

Event(op, c) == [op |-> op, credential |-> c]

Log(op, c) == trace' = Append(trace, Event(op, c))

Init ==
    /\ progress = None
    /\ progress_file \in InitialFiles
    /\ backup_file = Absent
    /\ success_file = Absent
    /\ clock = 0
    /\ database = << "vault.kdbx" >>
    /\ database_bytes = "bytesA"
    /\ args \in CommandLines
    /\ resume \in BOOLEAN
    /\ credential_manager = None
    /\ interrupted = FALSE
    /\ pc = "main"
    /\ progress_loaded = "unset"
    /\ consumed = 0
    /\ credential = None
    /\ combination_index = 0
    /\ skip_count = 0
    /\ verifier = "none"
    /\ outcome = ""
    /\ exit_code = None
    /\ run = 1
    /\ faults = 0
    /\ trace = << >>
    /\ prev_completed = {}

\* sys.exit(code)
Exit(code) == pc' = "exited" /\ exit_code' = Some(code)

\* cli.py 61-68: no credential source at all is a validation error
Validate ==
    /\ pc = "main"
    /\ IF args.passphrases_list = << >> /\ args.keyfile_list = << >> /\ ~args.yubikey
       THEN Exit(1)
       ELSE pc' = "setup" /\ UNCHANGED exit_code
    /\ UNCHANGED << store_vars, target_vars, credential_manager, interrupted,
                    progress_loaded, loop_vars, outcome, run, faults, trace,
                    prev_completed >>

BuildManager(a) ==
    LET c1 == IF a.passphrases_list # << >>
              THEN add_passphrases(NewCredentialManager, a.passphrases_list)
              ELSE NewCredentialManager
        c2 == IF a.keyfile_list # << >> THEN add_keyfiles(c1, a.keyfile_list) ELSE c1
        c3 == IF a.yubikey THEN set_yubikey_slots(c2, a.yubikey_slots) ELSE c2
    IN  enable_no_keyfile(enable_no_passphrase(c3, a.try_no_password), a.try_no_keyfile)

\* cli.py 71-105: the managers and the engine are built; the engine's
\* constructor installs the signal handlers
Setup ==
    /\ pc = "setup"
    /\ credential_manager' = Some(BuildManager(args))
    /\ pc' = "load"
    /\ UNCHANGED << store_vars, target_vars, interrupted, progress_loaded, loop_vars,
                    outcome, exit_code, run, faults, trace, prev_completed >>

\* SIGINT before the engine installed its handler raises KeyboardInterrupt
\* inside main's try block: cli.py 117-119
KeyboardInterrupt ==
    /\ pc = "setup"
    /\ Exit(130)
    /\ UNCHANGED << store_vars, target_vars, credential_manager, interrupted,
                    progress_loaded, loop_vars, outcome, run, faults, trace,
                    prev_completed >>

EngineAlive ==
    pc \in {"load", "start", "head", "test", "inflight", "mark", "mark_success", "cleanup"}

\* SIGINT or SIGTERM once the engine exists: _signal_handler
signal_handler ==
    /\ EngineAlive
    /\ ~interrupted
    /\ interrupted' = TRUE
    /\ Log("signal", None)
    /\ UNCHANGED << store_vars, target_vars, credential_manager, pc, progress_loaded,
                    loop_vars, outcome, exit_code, run, faults, prev_completed >>

\* run 110-112; an exception of load_progress leaves run() and reaches
\* main's "except Exception"
Load ==
    /\ pc = "load"
    /\ IF resume
       THEN LET r == load_progress(Store, database, database_bytes)
            IN  /\ SetStore(r[1])
                /\ progress_loaded' = r[2]
                /\ IF r[2] = "raise"
                   THEN Exit(1) /\ outcome' = "Failed"
                   ELSE pc' = "start" /\ UNCHANGED << exit_code, outcome >>
       ELSE /\ progress_loaded' = "False"
            /\ pc' = "start"
            /\ UNCHANGED << store_vars, exit_code, outcome >>
    /\ UNCHANGED << target_vars, credential_manager, interrupted, loop_vars, run,
                    faults, trace, prev_completed >>

\* run 114-141
Start ==
    /\ pc = "start"
    /\ \E io \in SaveIO :
         LET new(o) == create_new_progress(Store, database, database_bytes,
                           count_combinations(credential_manager[1]), o)
             st == IF progress_loaded = "True" THEN Store ELSE new(io)
         IN  /\ Inject(io, st, IF progress_loaded = "True" THEN Store ELSE new(NoFault))
             /\ SetStore(st)
             /\ skip_count' = get_skip_count(st)
    /\ combination_index' = 0
    /\ pc' = "head"
    /\ UNCHANGED << target_vars, credential_manager, interrupted, progress_loaded,
                    consumed, credential, verifier, outcome, exit_code, run,
                    trace, prev_completed >>

\* run 203-215 and cli.py 113-115: the loop is over without a success
ReturnFalse ==
    /\ outcome' = IF interrupted THEN "Interrupted" ELSE "Exhausted"
    /\ Exit(1)

\* run 159-173: what one iteration does with its item
\* the loop head as it would be without the poll of lines 160-162
loop_decision_unpolled(flag, index, skip, tried) ==
    IF index < skip THEN "skip_position"
    ELSE IF tried THEN "skip_tried"
    ELSE "test"

loop_decision(flag, index, skip, tried) ==
    IF flag THEN "break"
    ELSE IF index < skip THEN "skip_position"
    ELSE IF tried THEN "skip_tried"
    ELSE "test"

\* run 157-173: the next item, the poll of the flag and the two skips
LoopHead ==
    /\ pc = "head"
    /\ LET seq == generate_combinations(credential_manager[1])
       IN  IF consumed = Len(seq)
           THEN /\ ReturnFalse
                /\ UNCHANGED << loop_vars, trace >>
           ELSE LET c == seq[consumed + 1]
                    decision == loop_decision(interrupted, combination_index,
                                    skip_count, is_combination_tried(Store, c))
                IN  /\ consumed' = consumed + 1
                    /\ credential' = Some(c)
                    /\ UNCHANGED << skip_count, verifier >>
                    /\ IF decision = "break"
                       THEN ReturnFalse /\ UNCHANGED << combination_index, trace >>
                       ELSE IF decision \in {"skip_position", "skip_tried"}
                       THEN /\ combination_index' = combination_index + 1
                            /\ Log(decision, Some(c))
                            /\ UNCHANGED << pc, outcome, exit_code >>
                       ELSE /\ pc' = "test"
                            /\ UNCHANGED << combination_index, trace, outcome, exit_code >>
    /\ UNCHANGED << store_vars, target_vars, credential_manager, interrupted,
                    progress_loaded, run, faults, prev_completed >>

\* run 179, _test_credential 74: subprocess.run starts the verifier
StartVerifier ==
    /\ pc = "test"
    /\ pc' = "inflight"
    /\ Log("invoke", credential)
    /\ UNCHANGED << store_vars, target_vars, credential_manager, interrupted,
                    progress_loaded, loop_vars, outcome, exit_code, run, faults,
                    prev_completed >>

\* _test_credential as it would be if a timeout counted as a success
test_credential_timeout_passes(result) == result \in {"exit0", "timeout"}

\* _test_credential 82-104: exit code 0 is success, everything else False
test_credential(result) == result = "exit0"

VerifierReturns ==
    /\ pc = "inflight"
    /\ \E result \in VerifierOutcomes :
         /\ verifier' = result
         /\ Log(IF test_credential(result) THEN "accepted" ELSE "rejected", credential)
    /\ pc' = "mark"
    /\ UNCHANGED << store_vars, target_vars, credential_manager, interrupted,
                    progress_loaded, consumed, credential, combination_index,
                    skip_count, outcome, exit_code, run, faults, prev_completed >>

\* the loop as it would be if a success did not leave it
after_mark_continuing(success) == "head"

\* the loop as it would be if a failed attempt were tried again instead of
\* moving on to the next item
after_mark_retrying(success) == IF success THEN "mark_success" ELSE "test"

\* run 188-201: a success leaves the loop through mark_success and cleanup
after_mark(success) == IF success THEN "mark_success" ELSE "head"

\* run 181-188
MarkTried ==
    /\ pc = "mark"
    /\ \E io \in SaveIO :
         LET st == mark_combination_tried(Store, credential[1], io)
         IN  /\ Inject(io, st, mark_combination_tried(Store, credential[1], NoFault))
             /\ SetStore(st)
    /\ combination_index' = combination_index + 1
    /\ Log("mark_tried", credential)
    /\ pc' = after_mark(test_credential(verifier))
    /\ verifier' = "none"
    /\ UNCHANGED << target_vars, credential_manager, interrupted, progress_loaded,
                    consumed, credential, skip_count, outcome, exit_code, run,
                    prev_completed >>

\* run 190
MarkSuccess ==
    /\ pc = "mark_success"
    /\ \E io \in SaveIO :
         LET st == mark_success(Store, credential[1], io)
         IN  /\ Inject(io, st, mark_success(Store, credential[1], NoFault))
             /\ SetStore(st)
    /\ Log("mark_success", credential)
    /\ pc' = "cleanup"
    /\ UNCHANGED << target_vars, credential_manager, interrupted, progress_loaded,
                    loop_vars, outcome, exit_code, run, prev_completed >>

\* run 200-201 and cli.py 110-112
Cleanup ==
    /\ pc = "cleanup"
    /\ \E io \in CleanupIO :
         LET st == cleanup_progress(Store, io)
         IN  /\ Inject(io, st, cleanup_progress(Store, NoFault))
             /\ SetStore(st)
             /\ trace' = Append(trace, Event("cleanup", None))
                            \o (IF io.unlink_ok /\ io.backup_unlink_ok THEN << >>
                                ELSE << Event("delete_failed", None) >>)
    /\ outcome' = "Succeeded"
    /\ Exit(0)
    /\ UNCHANGED << target_vars, credential_manager, interrupted, progress_loaded,
                    loop_vars, run, prev_completed >>

Completed(tr) ==
    { tr[i].credential[1] :
        i \in { j \in 1..Len(tr) : tr[j].op \in {"accepted", "rejected"} } }

\* the tool is started again: a new process, the files as the last one left
\* them; the target may have been edited or be named by another path
NextRun ==
    /\ pc = "exited"
    /\ run < MaxRuns
    /\ run' = run + 1
    /\ resume' \in BOOLEAN
    /\ database' \in DatabasePaths
    /\ database_bytes' \in DatabaseContents
    /\ prev_completed' =
          IF resume' /\ database' = database /\ database_bytes' = database_bytes
          THEN prev_completed \cup Completed(trace) ELSE {}
    /\ clock' = Epoch * run
    /\ progress' = None
    /\ credential_manager' = None
    /\ interrupted' = FALSE
    /\ pc' = "main"
    /\ progress_loaded' = "unset"
    /\ consumed' = 0
    /\ credential' = None
    /\ combination_index' = 0
    /\ skip_count' = 0
    /\ verifier' = "none"
    /\ outcome' = ""
    /\ exit_code' = None
    /\ trace' = << >>
    /\ success_file' = IF Exists(success_file) THEN Stale ELSE Absent
    /\ UNCHANGED << progress_file, backup_file, args, faults >>

Next ==
    \/ Validate
    \/ Setup
    \/ KeyboardInterrupt
    \/ signal_handler
    \/ Load
    \/ Start
    \/ LoopHead
    \/ StartVerifier
    \/ VerifierReturns
    \/ MarkTried
    \/ MarkSuccess
    \/ Cleanup
    \/ NextRun

Spec == Init /\ [][Next]_vars

(***************************************************************************)
(* The progress store on its own: the interface of ProgressManager called  *)
(* in any order on one manager, which is either new or holds a record in   *)
(* which the first Credentials of the enumeration are marked.              *)
(* mark_combination_tried is given the first or the last Credential of the *)
(* tried-list or the next one of the enumeration, mark_success the last    *)
(* one of the tried-list or the next one of the enumeration.               *)
(***************************************************************************)
\* the time of the first call, later than every timestamp of the record
StoreStart == 20

\* calls in one behaviour that read the clock
MaxCalls == 3

NewStore ==
    [progress |-> None, progress_file |-> Absent, backup_file |-> Absent,
     success_file |-> Absent, clock |-> 0]

\* the store after mark_combination_tried for the first k items of seq
RECURSIVE Marked(_, _, _)
Marked(st, seq, k) ==
    IF k = 0 THEN st
    ELSE mark_combination_tried(Marked(st, seq, k - 1), seq[k], NoFault)

InitStore ==
    /\ database = << "vault.kdbx" >>
    /\ database_bytes = "bytesA"
    /\ args \in { a \in CommandLines : a.keyfile_list # << >> }
    /\ resume = TRUE
    /\ credential_manager = Some(BuildManager(args))
    /\ \E k \in 0..count_combinations(credential_manager[1]) :
         LET seq == generate_combinations(credential_manager[1])
             created == create_new_progress(NewStore, database, database_bytes,
                                            Len(seq), NoFault)
             st == [Marked(created, seq, k) EXCEPT !.clock = StoreStart]
         IN  \/ /\ k = 0
                /\ progress = None
                /\ progress_file = Absent
                /\ backup_file = Absent
                /\ clock = StoreStart
             \/ /\ progress = st.progress
                /\ progress_file = st.progress_file
                /\ backup_file = st.backup_file
                /\ clock = st.clock
    /\ success_file = Absent
    /\ interrupted = FALSE
    /\ pc = "store"
    /\ progress_loaded = "unset"
    /\ consumed = 0
    /\ credential = None
    /\ combination_index = 0
    /\ skip_count = 0
    /\ verifier = "none"
    /\ outcome = ""
    /\ exit_code = None
    /\ run = 1
    /\ faults = 0
    /\ trace = << >>
    /\ prev_completed = {}

driver_vars ==
    << target_vars, credential_manager, interrupted, pc, loop_vars, outcome,
       exit_code, run, prev_completed >>

\* the last call made
Called(op, c) == trace' = << Event(op, c) >>

Untried ==
    SelectSeq(generate_combinations(credential_manager[1]),
              LAMBDA c : ~is_combination_tried(Store, c))

Tried ==
    SelectSeq(generate_combinations(credential_manager[1]),
              LAMBDA c : is_combination_tried(Store, c))

FirstOf(s) == IF s = << >> THEN {} ELSE { s[1] }

LastOf(s) == IF s = << >> THEN {} ELSE { s[Len(s)] }

StoreLoad ==
    /\ pc = "store"
    /\ LET r == load_progress(Store, database, database_bytes)
       IN  SetStore(r[1]) /\ progress_loaded' = r[2]
    /\ Called("load", None)
    /\ UNCHANGED << driver_vars, faults >>

StoreCreate ==
    /\ pc = "store"
    /\ clock < StoreStart + MaxCalls
    /\ \E io \in SaveIO :
         LET new(o) == create_new_progress(Store, database, database_bytes,
                           count_combinations(credential_manager[1]), o)
         IN  Inject(io, new(io), new(NoFault)) /\ SetStore(new(io))
    /\ Called("create", None)
    /\ UNCHANGED << driver_vars, progress_loaded >>

StoreMarkTried ==
    /\ pc = "store"
    /\ clock < StoreStart + MaxCalls
    /\ \E c \in FirstOf(Tried) \cup LastOf(Tried) \cup FirstOf(Untried), io \in SaveIO :
         LET st == mark_combination_tried(Store, c, io)
         IN  /\ Inject(io, st, mark_combination_tried(Store, c, NoFault))
             /\ SetStore(st)
             /\ Called("mark_tried", Some(c))
    /\ UNCHANGED << driver_vars, progress_loaded >>

StoreMarkSuccess ==
    /\ pc = "store"
    /\ clock < StoreStart + MaxCalls
    /\ \E c \in LastOf(Tried) \cup FirstOf(Untried), io \in SaveIO :
         LET st == mark_success(Store, c, io)
         IN  /\ Inject(io, st, mark_success(Store, c, NoFault))
             /\ SetStore(st)
             /\ Called("mark_success", Some(c))
    /\ UNCHANGED << driver_vars, progress_loaded >>

StoreCleanup ==
    /\ pc = "store"
    /\ clock < StoreStart + MaxCalls
    /\ \E io \in CleanupIO :
         LET st == cleanup_progress(Store, io)
         IN  Inject(io, st, cleanup_progress(Store, NoFault)) /\ SetStore(st)
    /\ Called("cleanup", None)
    /\ UNCHANGED << driver_vars, progress_loaded >>

NextStore ==
    \/ StoreLoad
    \/ StoreCreate
    \/ StoreMarkTried
    \/ StoreMarkSuccess
    \/ StoreCleanup

SpecStore == InitStore /\ [][NextStore]_vars

(***************************************************************************)
(* Properties of the attempt driver and the progress store.                *)
(***************************************************************************)
Sequence == generate_combinations(credential_manager[1])

Invoked(tr) == { tr[i].credential[1] : i \in { j \in 1..Len(tr) : tr[j].op = "invoke" } }

\* the trace without what the environment did
WithoutSignals(tr) == SelectSeq(tr, LAMBDA e : e.op \notin {"signal", "delete_failed"})

IsPrefix(a, b) == Len(a) <= Len(b) /\ SubSeq(b, 1, Len(a)) = a

\* invocations started after the first signal of this run
InvokesAfterSignal(tr) ==
    Cardinality({ j \in 1..Len(tr) :
        tr[j].op = "invoke" /\ \E i \in 1..(j - 1) : tr[i].op = "signal" })

Ended(how) == pc = "exited" /\ outcome = how

\* C1: across an interruption and a later resumed run with the same target
\* file and the same configuration, no Credential whose verifier invocation
\* completed in the earlier run is invoked again (stated for runs without
\* any I/O fault).
C1_NoReinvocationAcrossResume ==
    faults = 0 => Invoked(trace) \cap prev_completed = {}

\* C2: whenever run() returns without success (Interrupted, Exhausted or
\* Failed), the persisted progress record lists every combination that was
\* attempted during the run (stated for runs without any I/O fault).
C2_FinalProgressSaved ==
    (pc = "exited" /\ outcome \in {"Interrupted", "Exhausted", "Failed"} /\ faults = 0)
        => \A c \in Completed(trace) :
              /\ progress_file.kind = "record"
              /\ Contains(progress_file.data[1].tried_combinations, to_dict(c))

\* C3: when the verifier reports success for a Credential, the driver marks
\* it tried, calls mark_success, then cleanup_progress, in that order, and
\* ends Succeeded with exit code 0; nothing else happens after the accepted
\* invocation, in particular no further verifier invocation.
C3_SuccessStopsImmediately ==
    /\ \A i \in 1..Len(trace) :
         trace[i].op = "accepted" =>
           LET c == trace[i].credential
               rest == WithoutSignals(SubSeq(trace, i + 1, Len(trace)))
           IN  /\ IsPrefix(rest, << Event("mark_tried", c), Event("mark_success", c),
                                    Event("cleanup", None) >>)
               /\ pc = CASE Len(rest) = 0 -> "mark"
                         [] Len(rest) = 1 -> "mark_success"
                         [] Len(rest) = 2 -> "cleanup"
                         [] OTHER -> "exited"
               /\ Len(rest) >= 1 =>
                     Contains(progress[1].tried_combinations, to_dict(c[1]))
               /\ Len(rest) >= 2 => progress[1].success = Some(to_dict(c[1]))
               /\ pc = "exited" => outcome = "Succeeded" /\ exit_code = Some(0)
    /\ Ended("Succeeded") => \E i \in 1..Len(trace) : trace[i].op = "accepted"

\* a success with combinations left that were never invoked, and a signal
\* delivered on the way
C3_Witness ==
    /\ Ended("Succeeded")
    /\ interrupted
    /\ consumed < Len(Sequence)
    /\ Cardinality(Invoked(trace)) >= 2

\* C4: in every state after a run has declared success, the working progress
\* file and its backup do not exist, so the next run finds no resumable
\* record, whether or not the flush and cleanup writes succeeded (stated for
\* runs in which no deletion of a file failed).
C4_NoProgressFilesAfterSuccess ==
    (Ended("Succeeded") /\ ~Contains(trace, Event("delete_failed", None))) =>
        /\ ~Exists(progress_file)
        /\ ~Exists(backup_file)
        /\ load_progress(Store, database, database_bytes)[2] = "False"

SummaryOf(c) ==
    JsonFile([database_file      |-> PathStr(database),
              database_hash      |-> calculate_database_hash(database_bytes),
              success_credential |-> to_dict(c),
              completed_at       |-> success_file.data[1].completed_at,
              total_attempts     |-> progress[1].attempts_made])

\* C5: every run that ends Succeeded leaves the success summary, holding the
\* fingerprint, the accepted Credential and the attempt counter at the
\* moment of success, also when the working progress file is missing at
\* cleanup time (stated for a cleanup whose own I/O does not fail).
C5_SummaryOnEverySuccess ==
    [][(pc = "cleanup" /\ pc' = "exited" /\ faults' = faults)
          => /\ success_file'.kind = "record"
             /\ success_file' = SummaryOf(credential[1])']_vars

\* what C6 states of every step, but for the invocations after the signal
C6_Step ==
    /\ (~interrupted /\ interrupted') =>
          UNCHANGED << store_vars, pc, loop_vars, outcome, exit_code >>
    /\ pc = "inflight" => pc' \in {"inflight", "mark"}
    /\ (pc = "mark" /\ pc' # "mark") =>
          Contains(progress'[1].tried_combinations, to_dict(credential[1]))
    /\ (pc = "head" /\ interrupted /\ pc' # pc) => pc' = "exited"

\* C6 as stated: the signal only sets the flag, an invocation in flight is
\* never aborted and its Credential is still marked tried, and once the flag
\* is set no new verifier invocation is started.
C6_NoInvocationOnceFlagSet ==
    [][C6_Step /\ InvokesAfterSignal(trace') = 0]_vars

\* C6 amended: as C6, but a signal that arrives after an iteration's poll
\* does not stop that iteration's invocation: once the poll has seen the
\* flag the loop exits, so at most one invocation starts after the signal.
C6_AtMostOneInvocationAfterSignal ==
    [][C6_Step /\ InvokesAfterSignal(trace') <= 1]_vars

\* the signal arrived while an invocation was in flight; the invocation
\* returned, its Credential was marked tried and the loop then ended
C6_Witness ==
    /\ Ended("Interrupted")
    /\ \E i \in 1..Len(trace) :
          /\ i + 3 = Len(trace)
          /\ trace[i].op = "invoke"
          /\ trace[i + 1].op = "signal"
          /\ trace[i + 2].op = "rejected"
          /\ trace[i + 3] = Event("mark_tried", trace[i].credential)
          /\ is_combination_tried(Store, trace[i].credential[1])

\* C7: the exit code identifies the outcome: 0 when the run Succeeded, 1
\* when it ended without a working combination or on a validation or startup
\* error, 130 when it was ended by an interruption signal, the attempt loop
\* included.
C7_ExitCodeIdentifiesOutcome ==
    pc = "exited" =>
        /\ outcome = "Succeeded" => exit_code = Some(0)
        /\ outcome \in {"Exhausted", "Failed"} => exit_code = Some(1)
        /\ outcome = "Interrupted" => exit_code = Some(130)
        /\ exit_code = Some(0) => outcome = "Succeeded"

ValidRecordOnDisk ==
    /\ progress_file.kind = "record"
    /\ progress_file.data[1].database_hash = calculate_database_hash(database_bytes)
    /\ progress_file.data[1].database_file = PathStr(database)

\* C8: load_progress returns true if and only if the progress file exists,
\* parses into a complete record whose fingerprint and path are those of the
\* target; in every other case it returns false without raising and the
\* store holds no loaded record.
C8_LoadTotal ==
    (resume /\ (pc = "start" \/ Ended("Failed"))) =>
        /\ progress_loaded = "True" <=> ValidRecordOnDisk
        /\ ~ValidRecordOnDisk => progress_loaded = "False" /\ progress = None

\* C9: the driver resumes only when resume is requested and load_progress
\* reports a valid record for the unchanged target; otherwise it creates a
\* fresh record (zero attempts, empty tried-list, total = count()) and writes
\* it before any verifier invocation.
C9_ResumeOnlyWithValidRecord ==
    /\ (pc = "head" /\ consumed = 0) =>
         /\ ~resume => progress_loaded = "False"
         /\ progress_loaded = "True" =>
              /\ resume
              /\ progress_file = JsonFile(progress[1])
              /\ progress[1].database_hash = calculate_database_hash(database_bytes)
              /\ progress[1].database_file = PathStr(database)
              /\ skip_count = progress[1].attempts_made
         /\ progress_loaded # "True" =>
              /\ progress # None
              /\ progress[1].attempts_made = 0
              /\ progress[1].tried_combinations = << >>
              /\ progress[1].success = None
              /\ progress[1].total_combinations = Len(Sequence)
              /\ progress[1].database_hash = calculate_database_hash(database_bytes)
              /\ progress[1].database_file = PathStr(database)
              /\ skip_count = 0
              /\ faults = 0 => progress_file = JsonFile(progress[1])
    /\ pc \in {"test", "inflight", "mark"} => progress # None

\* a second run that resumes the ten attempts the first one flushed
C9_Witness ==
    /\ pc = "head" /\ consumed = 0
    /\ run = 2
    /\ progress_loaded = "True"
    /\ progress[1].attempts_made = BatchInterval

NoDuplicates(s) == \A i, j \in 1..Len(s) : s[i] = s[j] => i = j

C10_Step ==
    (Len(trace') = 1 /\ trace'[1].op = "mark_tried") =>
        LET d == to_dict(trace'[1].credential[1])
        IN  IF progress = None \/ Contains(progress[1].tried_combinations, d)
            THEN UNCHANGED store_vars
            ELSE /\ progress'[1].tried_combinations =
                       Append(progress[1].tried_combinations, d)
                 /\ progress'[1].attempts_made = progress[1].attempts_made + 1

\* C10: mark_combination_tried is idempotent: a call with a Credential that
\* is already in the tried-list, whether it was the last one marked or an
\* earlier one, leaves the tried-list, the attempt counter, the timestamps
\* and the files unchanged; a call with a new Credential appends it and adds
\* one to the counter, so that the counter is the number of distinct
\* Credentials in the tried-list.
C10_MarkTriedIdempotent ==
    /\ [][C10_Step]_vars
    /\ [](progress # None =>
            /\ NoDuplicates(progress[1].tried_combinations)
            /\ progress[1].attempts_made = Len(progress[1].tried_combinations))

\* the call of mark_combination_tried that just returned was a repeated one,
\* for the first Credential of a tried-list that stands at the flush boundary
C10_Witness ==
    /\ Len(trace) = 1 /\ trace[1].op = "mark_tried"
    /\ progress # None
    /\ progress[1].attempts_made = BatchInterval
    /\ Len(progress[1].tried_combinations) = BatchInterval
    /\ progress[1].tried_combinations[1] = to_dict(trace[1].credential[1])
    /\ progress_file = JsonFile(progress[1])

\* the record on disk lags the one in memory by less than a batch
Lag ==
    /\ progress_file.kind = "record"
    /\ IsPrefix(progress_file.data[1].tried_combinations, progress[1].tried_combinations)
    /\ progress[1].attempts_made - progress_file.data[1].attempts_made
          \in 0..(BatchInterval - 1)

\* a call of mark_combination_tried that appends writes the file exactly when
\* the counter reaches a multiple of the batch size
C11_Step ==
    (Len(trace') = 1 /\ trace'[1].op = "mark_tried" /\ progress # None
       /\ progress' # progress /\ faults' = faults) =>
        IF progress'[1].attempts_made % BatchInterval = 0
        THEN progress_file' = JsonFile(progress'[1])
        ELSE UNCHANGED << progress_file, backup_file >>

\* C11: between create_new_progress (or a successful load_progress) and
\* cleanup_progress, with the flush writes succeeding, the persisted
\* tried-list is a prefix of the one in memory and the counter in memory
\* exceeds the persisted one by at most 9; mark_combination_tried flushes
\* exactly when an appended Credential brings the counter to a multiple of 10.
C11_AtMostOneBatchUnflushed ==
    /\ []((progress # None /\ faults = 0 /\ Exists(progress_file)) => Lag)
    /\ []((progress # None /\ faults = 0 /\ Len(trace) = 1
             /\ trace[1].op \in {"create", "mark_success"})
           => Exists(progress_file))
    /\ [][C11_Step]_vars

\* nine attempts in memory and none on disk, which the next attempt flushes
C11_Witness ==
    /\ progress # None /\ faults = 0
    /\ Len(trace) = 1 /\ trace[1].op = "mark_tried"
    /\ progress_file.kind = "record"
    /\ progress_file.data[1].attempts_made = 0
    /\ progress[1].attempts_made = BatchInterval - 1

\* C12: mark_success records the Credential as the success and flushes at
\* once, whatever the attempt counter modulo 10 is: when the flush's write
\* does not fail, the record on disk right after mark_success is the record
\* in memory, with the success, the whole tried-list and the counter.
C12_SuccessFlushedAtOnce ==
    [][(pc = "mark_success" /\ pc' = "cleanup" /\ faults' = faults) =>
          /\ progress'[1].success = Some(to_dict(credential[1]))
          /\ progress'[1].tried_combinations = progress[1].tried_combinations
          /\ progress'[1].attempts_made = progress[1].attempts_made
          /\ Contains(progress'[1].tried_combinations, to_dict(credential[1]))
          /\ progress_file' = JsonFile(progress'[1])]_vars

\* mark_success has returned with the counter at 3 and the record flushed
C12_Witness ==
    /\ pc = "cleanup"
    /\ progress[1].attempts_made = 3
    /\ progress[1].success = Some(to_dict(credential[1]))
    /\ progress_file = JsonFile(progress[1])

(***************************************************************************)
(* recover/recovery.py: the verifier's command line.                       *)
(***************************************************************************)
Digits == << "0", "1", "2", "3", "4", "5", "6", "7", "8", "9" >>

\* str(n) of an int n >= 0
RECURSIVE IntStr(_)
IntStr(n) ==
    IF n < 10 THEN Digits[n + 1] ELSE IntStr(n \div 10) \o Digits[(n % 10) + 1]

\* bool(x) of an Optional[int]: None and 0 are false
TruthyInt(x) == x # None /\ x[1] # 0

\* bool(x) of an Optional[Path]: a Path is always true
TruthyPath(x) == x # None

\* RecoveryEngine._build_keepassxc_command
build_keepassxc_command(cred, db) ==
    << "keepassxc-cli", "open", "--quiet" >>
      \o (IF TruthyPath(cred.keyfile)
          THEN << "--key-file", PathStr(cred.keyfile[1]) >> ELSE << >>)
      \o (IF TruthyInt(cred.yubikey_slot)
          THEN << "--yubikey", IntStr(cred.yubikey_slot[1]) >> ELSE << >>)
      \o (IF cred.passphrase = None THEN << "--no-password" >> ELSE << >>)
      \o << PathStr(db) >>

\* _test_credential 69-71: what is written to the verifier's standard input
input_data(cred) ==
    IF cred.passphrase # None
    THEN Some(cred.passphrase[1] \o "\n") ELSE None

(***************************************************************************)
(* The enumerator on its own: a CredentialManager is configured through    *)
(* its interface, then generate_combinations() is called and its items are *)
(* taken one by one, and it is called a second time.                       *)
(***************************************************************************)
\* entries one option list may be given
MaxEntries == 2

Passphrases == { "alpha", "beta" }

Keyfile2 == << "keys", "b.key" >>

Keyfiles == { Keyfile1, Keyfile2 }

\* what --yubikey-slots may parse into
SlotLists == { << 1 >>, << 0 >>, << 1, 2 >>, << 2, 2 >> }

InitEnum ==
    /\ progress = None
    /\ progress_file = Absent
    /\ backup_file = Absent
    /\ success_file = Absent
    /\ clock = 0
    /\ database = << "vault.kdbx" >>
    /\ database_bytes = "bytesA"
    /\ args \in { a \in CommandLines : a.keyfile_list = << >> }
    /\ resume = TRUE
    /\ credential_manager = Some(NewCredentialManager)
    /\ interrupted = FALSE
    /\ pc = "configure"
    /\ progress_loaded = "unset"
    /\ consumed = 0
    /\ credential = None
    /\ combination_index = 0
    /\ skip_count = 0
    /\ verifier = "none"
    /\ outcome = ""
    /\ exit_code = None
    /\ run = 1
    /\ faults = 0
    /\ trace = << >>
    /\ prev_completed = {}

enum_fixed ==
    << store_vars, target_vars, interrupted, progress_loaded, combination_index,
       skip_count, verifier, outcome, exit_code, run, faults, prev_completed >>

Configure(cm) ==
    /\ pc = "configure"
    /\ credential_manager' = Some(cm)
    /\ credential_manager' # credential_manager
    /\ UNCHANGED << enum_fixed, pc, consumed, credential, trace >>

EnumAddPassphrases ==
    /\ Len(credential_manager[1].passphrases) < MaxEntries
    /\ \E p \in Passphrases : Configure(add_passphrases(credential_manager[1], << p >>))

EnumAddKeyfiles ==
    /\ Len(credential_manager[1].keyfiles) < MaxEntries
    /\ \E k \in Keyfiles : Configure(add_keyfiles(credential_manager[1], << k >>))

EnumSetSlots ==
    /\ pc = "configure"
    /\ \E slots \in SlotLists : Configure(set_yubikey_slots(credential_manager[1], slots))

EnumEnableNoPassphrase ==
    /\ pc = "configure"
    /\ \E b \in BOOLEAN : Configure(enable_no_passphrase(credential_manager[1], b))

EnumEnableNoKeyfile ==
    /\ pc = "configure"
    /\ \E b \in BOOLEAN : Configure(enable_no_keyfile(credential_manager[1], b))

\* the calls of generate_combinations() so far
Calls(tr) == { j \in 1..Len(tr) : tr[j].op = "generate" }

\* generate_combinations() is called: the first time, or again once the
\* generator of the call before is exhausted
EnumGenerate ==
    /\ \/ pc = "configure"
       \/ pc = "exhausted" /\ Cardinality(Calls(trace)) < 2
    /\ pc' = "generate"
    /\ consumed' = 0
    /\ credential' = None
    /\ Log("generate", None)
    /\ UNCHANGED << enum_fixed, credential_manager >>

\* next() on the generator
EnumYield ==
    /\ pc = "generate"
    /\ LET seq == generate_combinations(credential_manager[1])
       IN  /\ consumed < Len(seq)
           /\ consumed' = consumed + 1
           /\ credential' = Some(seq[consumed + 1])
           /\ Log("yield", Some(seq[consumed + 1]))
    /\ UNCHANGED << enum_fixed, credential_manager, pc >>

\* next() on the generator after its last item: StopIteration
EnumStop ==
    /\ pc = "generate"
    /\ consumed = Len(generate_combinations(credential_manager[1]))
    /\ pc' = "exhausted"
    /\ UNCHANGED << enum_fixed, credential_manager, consumed, credential, trace >>

NextEnum ==
    \/ EnumAddPassphrases
    \/ EnumAddKeyfiles
    \/ EnumSetSlots
    \/ EnumEnableNoPassphrase
    \/ EnumEnableNoKeyfile
    \/ EnumGenerate
    \/ EnumYield
    \/ EnumStop

SpecEnum == InitEnum /\ [][NextEnum]_vars

(***************************************************************************)
(* Properties of the enumerator and of the verifier's command line         *)
(***************************************************************************)
\* the Credentials call number m has yielded so far: the trace is the first
\* call's items and then, after the second call, the consumed items of that
Yielded(tr, m) ==
    LET calls == Cardinality(Calls(tr))
        first == IF m = 1 THEN 1 ELSE Len(tr) - consumed
        count == IF m = calls THEN consumed ELSE Len(tr) - consumed - 2
    IN  [n \in 1..count |-> tr[first + n].credential[1]]

\* the generator of the last call is exhausted
Exhausted ==
    /\ pc = "exhausted"
    /\ consumed = Len(Yielded(trace, Cardinality(Calls(trace))))

NoFactor(cm) == cm.passphrases = << >> /\ cm.keyfiles = << >> /\ cm.yubikey_slots = << >>

\* C13 as stated: count() is the number of Credentials generate() yields, and
\* it is zero only when every factor list is empty and every absent flag is
\* disabled; in every other configuration it is greater than zero.
C13_ZeroOnlyWhenNothingEnabled ==
    LET cm == credential_manager[1]
    IN  /\ Exhausted => count_combinations(cm) = consumed
        /\ count_combinations(cm) = 0 <=>
             /\ NoFactor(cm)
             /\ ~cm.include_no_passphrase
             /\ ~cm.include_no_keyfile
             /\ ~cm.include_no_yubikey

\* C13 amended: count() is the number of Credentials generate() yields, and
\* it is zero exactly when all three factor lists are empty, whatever the
\* absent flags are; with an entry in some list it is greater than zero.
C13_ZeroExactlyWithoutFactors ==
    LET cm == credential_manager[1]
    IN  /\ Exhausted => count_combinations(cm) = consumed
        /\ pc \in {"generate", "exhausted"} => consumed <= count_combinations(cm)
        /\ count_combinations(cm) = 0 <=> NoFactor(cm)

\* generate() was called with both absent flags enabled and no factor given,
\* and yielded nothing
C13_Witness ==
    /\ Exhausted
    /\ consumed = 0
    /\ NoFactor(credential_manager[1])
    /\ credential_manager[1].include_no_passphrase
    /\ credential_manager[1].include_no_keyfile
    /\ credential_manager[1].include_no_yubikey

OptionSet(values, absent) ==
    { Some(values[i]) : i \in 1..Len(values) } \cup (IF absent THEN { None } ELSE {})

\* C14: for every configuration with distinct entries in each list, the
\* generated sequence is exactly the Cartesian product of the three option
\* sets with the all-absent triple removed, each combination once, so that
\* count() = |P| x |K| x |T|, minus 1 when the all-absent triple is in the
\* product.
C14_CartesianProductOnce ==
    LET cm == credential_manager[1]
        P == OptionSet(cm.passphrases,
                       cm.include_no_passphrase
                         \/ (cm.passphrases = << >>
                               /\ (cm.keyfiles # << >> \/ cm.yubikey_slots # << >>)))
        K == OptionSet(cm.keyfiles, cm.include_no_keyfile \/ cm.keyfiles = << >>)
        T == OptionSet(cm.yubikey_slots, cm.include_no_yubikey)
        all == { Credential(p, k, t) : p \in P, k \in K, t \in T }
        absent == Credential(None, None, None)
        seq == Yielded(trace, Cardinality(Calls(trace)))
    IN  (Exhausted /\ NoDuplicates(cm.passphrases) /\ NoDuplicates(cm.keyfiles)
           /\ NoDuplicates(cm.yubikey_slots)) =>
          /\ Range(seq) = all \ { absent }
          /\ NoDuplicates(seq)
          /\ count_combinations(cm) =
               Cardinality(P) * Cardinality(K) * Cardinality(T)
                 - (IF absent \in all THEN 1 ELSE 0)

\* C15: no Credential yielded by generate() has passphrase, keyfile and
\* token slot all absent.
C15_NeverAllAbsent ==
    /\ \A j \in 1..Len(trace) :
         trace[j].op = "yield" =>
            \/ trace[j].credential[1].passphrase # None
            \/ trace[j].credential[1].keyfile # None
            \/ trace[j].credential[1].yubikey_slot # None
    /\ credential # None => to_dict(credential[1]) # to_dict(Credential(None, None, None))

\* a generator run to its end whose product held the all-absent triple
C15_Witness ==
    /\ Exhausted
    /\ consumed = 5
    /\ credential_manager[1].include_no_passphrase
    /\ credential_manager[1].include_no_keyfile
    /\ Len(credential_manager[1].passphrases) = 2
    /\ Len(credential_manager[1].keyfiles) = 1

\* the options of one factor: the entries in the order they were added, then
\* the absent option
InOrder(options, values) ==
    /\ Len(options) >= Len(values)
    /\ \A i \in 1..Len(options) :
         options[i] = IF i <= Len(values) THEN Some(values[i]) ELSE None

\* item n of the product, the passphrase varying slowest and the token slot
\* fastest
ItemAt(P, K, Y, n) ==
    Credential(P[((n - 1) \div (Len(K) * Len(Y))) + 1],
               K[(((n - 1) \div Len(Y)) % Len(K)) + 1],
               Y[((n - 1) % Len(Y)) + 1])

\* C16: two calls of generate() on an unchanged configuration yield the same
\* Credentials in the same order, and that order follows the order in which
\* the options were added, passphrases varying slowest, then keyfiles, token
\* slots fastest, the absent option last within each factor.
C16_StableOrder ==
    LET cm == credential_manager[1]
    IN  \A o \in { << passphrase_options(cm), keyfile_options(cm), yubikey_options(cm) >> } :
        \A expected \in { SelectSeq([n \in 1..(Len(o[1]) * Len(o[2]) * Len(o[3])) |->
                                        ItemAt(o[1], o[2], o[3], n)],
                                    LAMBDA c : c # Credential(None, None, None)) } :
          /\ InOrder(o[1], cm.passphrases)
          /\ InOrder(o[2], cm.keyfiles)
          /\ InOrder(o[3], cm.yubikey_slots)
          /\ \A m \in 1..Cardinality(Calls(trace)) :
               \A yielded \in { Yielded(trace, m) } : IsPrefix(yielded, expected)
          /\ (Exhausted /\ Cardinality(Calls(trace)) = 2) =>
               /\ Yielded(trace, 1) = Yielded(trace, 2)
               /\ Yielded(trace, 2) = expected

\* the second call has yielded all it has, for two passphrases, two keyfiles
\* and two slots with both absent flags enabled
C16_Witness ==
    /\ Exhausted
    /\ Cardinality(Calls(trace)) = 2
    /\ credential_manager[1].passphrases = << "beta", "alpha" >>
    /\ credential_manager[1].keyfiles = << Keyfile2, Keyfile1 >>
    /\ credential_manager[1].yubikey_slots = << 1, 2 >>
    /\ credential_manager[1].include_no_passphrase
    /\ credential_manager[1].include_no_keyfile
    /\ consumed = 26

\* C17: the verifier command contains the database path, the keyfile flag if
\* and only if the keyfile is present, the token-slot flag if and only if a
\* token slot is present (slot 0 included), the no-passphrase flag if and
\* only if the passphrase is absent; a present passphrase goes to standard
\* input only, so the command does not depend on it.
C17_CommandMatchesCredential ==
    credential # None =>
      LET c == credential[1]
          cmd == build_keepassxc_command(c, database)
      IN  /\ cmd[Len(cmd)] = PathStr(database)
          /\ Contains(cmd, "--key-file") <=> c.keyfile # None
          /\ c.keyfile # None => Contains(cmd, PathStr(c.keyfile[1]))
          /\ Contains(cmd, "--yubikey") <=> c.yubikey_slot # None
          /\ c.yubikey_slot # None => Contains(cmd, IntStr(c.yubikey_slot[1]))
          /\ Contains(cmd, "--no-password") <=> c.passphrase = None
          /\ c.passphrase # None =>
               /\ ~Contains(cmd, c.passphrase[1])
               /\ input_data(c) = Some(c.passphrase[1] \o "\n")
               /\ \A p \in Passphrases :
                    build_keepassxc_command([c EXCEPT !.passphrase = Some(p)], database) = cmd
          /\ c.passphrase = None => input_data(c) = None

(***************************************************************************)
(* The driver on command lines whose enumeration repeats a Credential, and *)
(* the driver restarted with a reordered option list.                      *)
(***************************************************************************)
\* no passphrase with the default --try-no-password and a token slot adds
\* the absent passphrase twice; a passphrase may be given twice
DuplicateCommandLines ==
    { [passphrases_list |-> << >>, keyfile_list |-> << >>,
       yubikey |-> TRUE, yubikey_slots |-> << 1 >>,
       try_no_password |-> TRUE, try_no_keyfile |-> TRUE],
      [passphrases_list |-> << "alpha", "alpha", "beta" >>, keyfile_list |-> << >>,
       yubikey |-> FALSE, yubikey_slots |-> << 1, 2 >>,
       try_no_password |-> FALSE, try_no_keyfile |-> TRUE] }

\* eleven combinations, the two token slots given in either order
SlotOrders == { << 1, 2 >>, << 2, 1 >> }

ReorderedCommandLines ==
    { [passphrases_list |-> << "alpha" >>, keyfile_list |-> << Keyfile1 >>,
       yubikey |-> TRUE, yubikey_slots |-> slots,
       try_no_password |-> TRUE, try_no_keyfile |-> TRUE] : slots \in SlotOrders }

\* the state main starts in, for command line a
Started(a, file) ==
    /\ progress = None
    /\ progress_file = file
    /\ backup_file = Absent
    /\ success_file = Absent
    /\ clock = 0
    /\ database = << "vault.kdbx" >>
    /\ database_bytes = "bytesA"
    /\ args = a
    /\ resume \in BOOLEAN
    /\ credential_manager = None
    /\ interrupted = FALSE
    /\ pc = "main"
    /\ progress_loaded = "unset"
    /\ consumed = 0
    /\ credential = None
    /\ combination_index = 0
    /\ skip_count = 0
    /\ verifier = "none"
    /\ outcome = ""
    /\ exit_code = None
    /\ run = 1
    /\ faults = 0
    /\ trace = << >>
    /\ prev_completed = {}

InitDup == \E a \in DuplicateCommandLines : Started(a, Absent)

SpecDup == InitDup /\ [][Next]_vars

InitReorder ==
    \E a \in ReorderedCommandLines : a.yubikey_slots = << 1, 2 >> /\ Started(a, Absent)

\* the tool is started again on the same target with the same options given
\* in another order
NextRunReordered ==
    /\ pc = "exited"
    /\ run < MaxRuns
    /\ run' = run + 1
    /\ resume' \in BOOLEAN
    /\ args' \in ReorderedCommandLines \ { args }
    /\ prev_completed' = {}
    /\ clock' = Epoch * run
    /\ progress' = None
    /\ credential_manager' = None
    /\ interrupted' = FALSE
    /\ pc' = "main"
    /\ progress_loaded' = "unset"
    /\ consumed' = 0
    /\ credential' = None
    /\ combination_index' = 0
    /\ skip_count' = 0
    /\ verifier' = "none"
    /\ outcome' = ""
    /\ exit_code' = None
    /\ trace' = << >>
    /\ success_file' = IF Exists(success_file) THEN Stale ELSE Absent
    /\ UNCHANGED << progress_file, backup_file, database, database_bytes, faults >>

NextReorder ==
    \/ Next
    \/ NextRunReordered

SpecReorder == InitReorder /\ [][NextReorder]_vars

(***************************************************************************)
(* Properties of the attempt loop                                          *)
(***************************************************************************)
\* C18: within a single run, every structurally distinct Credential is
\* invoked against the verifier at most once, also when the enumerated
\* sequence holds the same Credential more than once.
C18_InvokedAtMostOncePerRun ==
    \A i, j \in 1..Len(trace) :
        (trace[i].op = "invoke" /\ trace[j].op = "invoke"
           /\ to_dict(trace[i].credential[1]) = to_dict(trace[j].credential[1]))
        => i = j

\* the run went through the whole sequence, one Credential of which came a
\* second time after its invocation and was passed over
C18_Witness ==
    /\ Ended("Exhausted")
    /\ ~NoDuplicates(Sequence)
    /\ \E i, j \in 1..Len(trace) :
          /\ i < j
          /\ trace[i].op = "invoke"
          /\ trace[j] = Event("skip_tried", trace[i].credential)

C19_Step ==
    /\ (pc = "inflight" /\ pc' # pc) => pc' = "mark"
    /\ (pc = "mark" /\ pc' # pc /\ verifier \in {"nonzero", "timeout", "error"}) =>
          /\ pc' = "head"
          /\ outcome' = "" /\ exit_code' = None
          /\ Contains(progress'[1].tried_combinations, to_dict(credential[1]))
          /\ progress'[1].attempts_made = Len(progress'[1].tried_combinations)
          /\ combination_index' = combination_index + 1
          /\ consumed' = consumed
    /\ (pc = "head" /\ consumed' # consumed) =>
          /\ consumed' = consumed + 1
          /\ credential' = Some(Sequence[consumed + 1])

\* C19: a verifier outcome of nonzero exit, timeout or invocation error is a
\* failed attempt for that Credential only: the Credential is marked tried
\* as after any other attempt, the run does not end Failed, and the loop
\* goes on with the next Credential of the sequence.
C19_FailedAttemptIsNotFatal == [][C19_Step]_vars

\* the verifier timed out on the first Credential, which was marked tried,
\* and has now been started on the second
C19_Witness ==
    /\ pc = "inflight"
    /\ consumed = 2
    /\ Len(trace) = 4
    /\ trace[2] = Event("rejected", Some(Sequence[1]))
    /\ trace[3] = Event("mark_tried", Some(Sequence[1]))
    /\ trace[4] = Event("invoke", Some(Sequence[2]))
    /\ is_combination_tried(Store, Sequence[1])

\* C20: in a resumed run, every Credential the driver passes over without
\* invoking the verifier, by the positional skip or by the membership
\* check, is in the tried-list, also when the option lists were reordered
\* between the two runs (stated for runs without any I/O fault).
C20_PassedOverOnlyIfTried ==
    faults = 0 =>
        \A i \in 1..Len(trace) :
            trace[i].op \in {"skip_position", "skip_tried"} =>
                is_combination_tried(Store, trace[i].credential[1])

(***************************************************************************)
(* C21 to C25.                                                             *)
(***************************************************************************)
\* a step of run() whose flush found the progress file, moved it to the
\* backup and then failed to write the new one
FailedFlush ==
    /\ pc \in {"start", "mark", "mark_success"}
    /\ faults' > faults
    /\ Exists(progress_file)
    /\ backup_file' = Present
    /\ progress_file'.kind \in {"absent", "invalid_json"}

C21_Step ==
    FailedFlush =>
       /\ progress' # None
       /\ LET q == progress'[1]
              c == to_dict(credential[1])
          IN  CASE pc = "start" ->
                     /\ q.tried_combinations = << >>
                     /\ q.attempts_made = 0
                     /\ q.success = None
                     /\ pc' = "head"
                [] pc = "mark" ->
                     /\ q.tried_combinations = Append(progress[1].tried_combinations, c)
                     /\ q.attempts_made = progress[1].attempts_made + 1
                     /\ q.success = progress[1].success
                     /\ pc' = IF test_credential(verifier) THEN "mark_success" ELSE "head"
                [] pc = "mark_success" ->
                     /\ q.tried_combinations = progress[1].tried_combinations
                     /\ q.attempts_made = progress[1].attempts_made
                     /\ q.success = Some(c)
                     /\ pc' = "cleanup"
       /\ consumed' = consumed
       /\ exit_code' = None
       /\ outcome' = ""

\* C21: a flush that fails to write after it renamed the previous file to
\* the backup does not end the run: the step leaves the tried-list, the
\* attempt counter and the success field in memory as the step set them, no
\* exit code and no outcome are set, and run() goes on where it would have
\* gone after a flush that worked (the loop head, which takes the next
\* Credential, or the success path)
C21_WriteFailureSwallowed == [][C21_Step]_vars

\* the tenth attempt was just marked, its flush renamed the file and could
\* not write it, and run() is back at the loop head
C21_Witness ==
    /\ pc = "head"
    /\ faults >= 1
    /\ outcome = ""
    /\ progress # None
    /\ progress[1].attempts_made = BatchInterval
    /\ trace # << >>
    /\ trace[Len(trace)].op = "mark_tried"
    /\ skip_count = 0
    /\ progress_file.kind \in {"absent", "invalid_json"}
    /\ backup_file = Present

(***************************************************************************)
(* The driver under fairness: a process that can take its next step        *)
(* takes it, and a verifier that was started returns.  Signals and         *)
(* restarts are the environment's and happen or not.                       *)
(***************************************************************************)
RunStep ==
    \/ Validate
    \/ Setup
    \/ Load
    \/ Start
    \/ LoopHead
    \/ StartVerifier
    \/ VerifierReturns
    \/ MarkTried
    \/ MarkSuccess
    \/ Cleanup

\* a command line of three Credentials: two passphrases and none, each with
\* the keyfile
LiveCommandLines ==
    { [passphrases_list |-> << "alpha", "beta" >>, keyfile_list |-> << Keyfile1 >>,
       yubikey |-> FALSE, yubikey_slots |-> << 1, 2 >>,
       try_no_password |-> TRUE, try_no_keyfile |-> FALSE] }

InitLive == \E a \in LiveCommandLines, file \in InitialFiles : Started(a, file)

\* the tool is started again on the same target
Restart ==
    /\ NextRun
    /\ database' = database
    /\ database_bytes' = database_bytes

NextLive ==
    \/ RunStep
    \/ KeyboardInterrupt
    \/ signal_handler
    \/ Restart

SpecLive == InitLive /\ [][NextLive]_vars /\ WF_vars(RunStep)

TerminalStates == { "Succeeded", "Exhausted", "Interrupted", "Failed" }

\* verifier invocations this run started
Invocations(tr) == Len(SelectSeq(tr, LAMBDA e : e.op = "invoke"))

\* every iteration of the loop takes one item of the sequence and invokes the
\* verifier at most once
C22_Bounded ==
    credential_manager # None =>
        /\ Invocations(trace) <= consumed
        /\ consumed <= Len(Sequence)

\* C22: a process that entered run() reaches one of the terminal states
\* Succeeded, Exhausted, Interrupted or Failed, and its loop took no more
\* items than the enumerated sequence has, with at most one verifier
\* invocation per item taken
C22_EveryRunTerminates ==
    /\ [] C22_Bounded
    /\ (pc = "load") ~> (pc = "exited" /\ outcome \in TerminalStates)

\* a run that invoked the verifier for every item of the sequence and ended
\* Exhausted
C22_Witness ==
    /\ pc = "exited"
    /\ outcome = "Exhausted"
    /\ consumed = Len(Sequence)
    /\ Invocations(trace) = consumed
    /\ consumed > 1

\* C23: when run() ends Exhausted, fresh or resumed from a record that
\* earlier runs of the same command line wrote, every Credential of the
\* enumerated sequence is in the tried-list held in memory, and each one
\* was invoked in this run or is among the entries the record had when this
\* run loaded it (the first skip_count entries of the list)
C23_ExhaustedMeansAllTried ==
    (pc = "exited" /\ outcome = "Exhausted") =>
        /\ progress # None
        /\ skip_count <= Len(progress[1].tried_combinations)
        /\ \A c \in Range(Sequence) :
              /\ Contains(progress[1].tried_combinations, to_dict(c))
              /\ \/ c \in Invoked(trace)
                 \/ Contains(SubSeq(progress[1].tried_combinations, 1, skip_count),
                             to_dict(c))

\* a resumed run that passed over the ten Credentials of the record, invoked
\* the verifier for the rest and ended Exhausted
C23_Witness ==
    /\ pc = "exited"
    /\ outcome = "Exhausted"
    /\ run = 2
    /\ progress_loaded = "True"
    /\ skip_count = BatchInterval
    /\ Invoked(trace) # {}
    /\ prev_completed # {}

\* the counters of a record agree with its tried-list, which has no entry
\* twice
Consistent(p) ==
    /\ p.attempts_made = Len(p.tried_combinations)
    /\ p.current_index = p.attempts_made
    /\ NoDuplicates(p.tried_combinations)

\* C24: whatever calls of mark_combination_tried and mark_success (with the
\* flushes they make, failing or not) follow create_new_progress, the
\* record's attempts_made equals the length of its tried-list and equals
\* current_index, and no two entries of the tried-list are equal; the same
\* holds of every record a flush wrote to the progress file
C24_CounterIsListLength ==
    /\ progress # None => Consistent(progress[1])
    /\ progress_file.kind = "record" => Consistent(progress_file.data[1])

\* mark_success was just called on a record that holds a success and at
\* least two tried Credentials
C24_Witness ==
    /\ Len(trace) = 1 /\ trace[1].op = "mark_success"
    /\ progress # None
    /\ progress[1].success # None
    /\ progress[1].current_index >= 2
    /\ progress[1].current_index < BatchInterval
    /\ progress_file = JsonFile(progress[1])

\* C25: a run that created its record and ended Exhausted leaves
\* attempts_made equal to total_combinations, and attempts_made never
\* exceeds total_combinations
C25_AttemptsReachTotal ==
    /\ (pc = "exited" /\ outcome = "Exhausted" /\ progress_loaded = "False") =>
          progress[1].attempts_made = progress[1].total_combinations
    /\ progress # None =>
          progress[1].attempts_made <= progress[1].total_combinations

=============================================================================
